---- MODULE Spec2Model ----
(***************************************************************************)
(* Playback engine of podflow: the useAudioPlayer hook                     *)
(* (src/src/hooks/useAudioPlayer.ts).                                      *)
(*                                                                         *)
(* The hook keeps one React state object.  Every operation queues a       *)
(* functional updater (setState(prev => ...)), which React applies, in     *)
(* call order, to the latest state.  The callbacks themselves are closures *)
(* over the `state` of the last render: playNext and playPrevious read     *)
(* state.queue and state.currentQueueIndex from that render, not from the  *)
(* latest state.  The model therefore keeps two copies:                    *)
(*   state    - the latest state (all queued updaters applied);            *)
(*   rendered - the state of the last render, which the closures read.     *)
(* Every operation is an event tick of its own, followed by a render (the *)
(* action Render), so each operation reads the state the previous left.   *)
(*                                                                         *)
(* Queue indices are 0-based as in the source; -1 means "none".            *)
(***************************************************************************)
EXTENDS Integers, Sequences, FiniteSets, TLC

\* ---- bounds of the model ------------------------------------------------
MaxQueue == 3        \* no operation grows the queue beyond this length
NumEpisodes == 2     \* distinct episode ids offered to the operations
MaxTasks == 2        \* element events queued and not yet fired
MaxTime == 1         \* media positions are 0 .. MaxTime (seconds)

\* ---- data ---------------------------------------------------------------
\* An Episode record; audioUrl is determined by the episode.
Episode(i) == [id |-> i, audioUrl |-> i]

\* currentEpisode: null
Null == [id |-> 0, audioUrl |-> 0]

EpisodePool == {Episode(i) : i \in 1..NumEpisodes}

\* index arguments tried for removeFromQueue: one below the range, the
\* range, and up to MaxQueue (at or beyond the end).
IndexInputs == (0 - 1) .. MaxQueue

\* volume is in percent and playbackSpeed in tenths: 100 is 1.0, 10 is 1.0
Volumes == {50, 100}
Speeds == {10, 15}
DefaultPlaybackRate == 10

\* positions offered to seek: one on each side of 0 .. MaxTime as well
SeekInputs == (0 - 1) .. (MaxTime + 1)

VARIABLES state, rendered, pendingRender, endedClosure,
          audioSrc, audio, metaListeners, errorListeners, plays, tasks,
          episodeProgress, storage, timers, debounce, appError,
          userStopped, last

vars == <<state, rendered, pendingRender, endedClosure,
          audioSrc, audio, metaListeners, errorListeners, plays, tasks,
          episodeProgress, storage, timers, debounce, appError,
          userStopped, last>>

\* the debounce delay of updateTimeProgress, in units of 1000 ms
DebounceDelay == 2

\* timers are the timeouts set and neither fired nor cleared, oldest first;
\* debouncedUpdateTimeRef.current is the newest one.  A timeout is the
\* closure () => onTimeProgress(episodeId, time) with the time left until it
\* fires and the Progress Map that onTimeProgress closed over.
NoTimer == <<>>

\* debounce records the last time-update tick: its episode and value, the
\* time elapsed since (up to DebounceDelay), the calls of the progress
\* callback since, and whether the tick came while the write of an earlier
\* tick was still pending (run = 2) or not (run = 1).  It is history,
\* nothing in the program reads it.
NoTick == [episodeId |-> 0, time |-> 0, elapsed |-> 0, calls |-> 0, run |-> 0]

\* useState initial value
InitialState ==
    [currentEpisode |-> Null,
     isPlaying |-> FALSE,
     playbackSpeed |-> 10,
     volume |-> 100,
     currentTime |-> 0,
     duration |-> 0,
     queue |-> <<>>,
     currentQueueIndex |-> 0 - 1]

\* ---- pure helpers -------------------------------------------------------
\* Array.prototype.findIndex(q => q.id === id): first match, 0-based, or -1
FindIndex(q, id) ==
    IF \E i \in 1..Len(q) : q[i].id = id
    THEN (CHOOSE i \in 1..Len(q) :
             /\ q[i].id = id
             /\ \A j \in 1..(i - 1) : q[j].id # id) - 1
    ELSE 0 - 1

\* prev.queue.filter((_, i) => i !== index)
FilterIndex(q, index) ==
    IF index \in 0..(Len(q) - 1)
    THEN SubSeq(q, 1, index) \o SubSeq(q, index + 2, Len(q))
    ELSE q

\* ---- state updaters (the functions passed to setState) ------------------
\* variant of PlayEpisodeUpdate that never looks for an existing entry
PlayEpisodeUpdateNoDedup(prev, episode) ==
    [prev EXCEPT !.currentEpisode = episode,
                 !.queue = Append(prev.queue, episode),
                 !.currentQueueIndex = Len(prev.queue),
                 !.isPlaying = TRUE]

\* variant of PlayEpisodeUpdate that takes the length of the new queue as
\* the new index
PlayEpisodeUpdateNewLength(prev, episode) ==
    LET existingQueueIndex == FindIndex(prev.queue, episode.id) IN
    IF existingQueueIndex # 0 - 1
    THEN [prev EXCEPT !.currentEpisode = episode,
                      !.currentQueueIndex = existingQueueIndex,
                      !.isPlaying = TRUE]
    ELSE [prev EXCEPT !.currentEpisode = episode,
                      !.queue = Append(prev.queue, episode),
                      !.currentQueueIndex = Len(prev.queue) + 1,
                      !.isPlaying = TRUE]

PlayEpisodeUpdate(prev, episode) ==
    LET existingQueueIndex == FindIndex(prev.queue, episode.id) IN
    IF existingQueueIndex # 0 - 1
    THEN [prev EXCEPT !.currentEpisode = episode,
                      !.currentQueueIndex = existingQueueIndex,
                      !.isPlaying = TRUE]
    ELSE [prev EXCEPT !.currentEpisode = episode,
                      !.queue = Append(prev.queue, episode),
                      !.currentQueueIndex = Len(prev.queue),
                      !.isPlaying = TRUE]

\* variant of AddToQueueUpdate that skips an episode already queued
AddToQueueUpdateDedup(prev, episode) ==
    IF FindIndex(prev.queue, episode.id) # 0 - 1
    THEN prev
    ELSE [prev EXCEPT !.queue = Append(prev.queue, episode)]

AddToQueueUpdate(prev, episode) ==
    [prev EXCEPT !.queue = Append(prev.queue, episode)]

\* variant of RemoveFromQueueUpdate that keeps isPlaying when the current
\* entry is removed
RemoveFromQueueUpdateKeepsPlaying(prev, index) ==
    LET newQueue == FilterIndex(prev.queue, index) IN
    IF index < prev.currentQueueIndex
    THEN [prev EXCEPT !.queue = newQueue,
                      !.currentQueueIndex = prev.currentQueueIndex - 1]
    ELSE IF index = prev.currentQueueIndex
    THEN [prev EXCEPT !.queue = newQueue,
                      !.currentEpisode = Null,
                      !.currentQueueIndex = 0 - 1]
    ELSE [prev EXCEPT !.queue = newQueue]

\* variant of RemoveFromQueueUpdate that does not shift the pointer
RemoveFromQueueUpdateNoShift(prev, index) ==
    LET newQueue == FilterIndex(prev.queue, index) IN
    IF index = prev.currentQueueIndex
    THEN [prev EXCEPT !.queue = newQueue,
                      !.isPlaying = FALSE,
                      !.currentEpisode = Null,
                      !.currentQueueIndex = 0 - 1]
    ELSE [prev EXCEPT !.queue = newQueue]

RemoveFromQueueUpdate(prev, index) ==
    LET newQueue == FilterIndex(prev.queue, index) IN
    IF index < prev.currentQueueIndex
    THEN [prev EXCEPT !.queue = newQueue,
                      !.currentQueueIndex = prev.currentQueueIndex - 1]
    ELSE IF index = prev.currentQueueIndex
    THEN [prev EXCEPT !.queue = newQueue,
                      !.isPlaying = FALSE,
                      !.currentEpisode = Null,
                      !.currentQueueIndex = 0 - 1]
    ELSE [prev EXCEPT !.queue = newQueue]

\* a toggle that only ever starts playback
TogglePlayPauseUpdatePlays(prev) ==
    [prev EXCEPT !.isPlaying = TRUE]

TogglePlayPauseUpdate(prev) ==
    [prev EXCEPT !.isPlaying = ~prev.isPlaying]

\* a clear that also rewinds: position and duration go back to 0
ClearQueueUpdateRewinds(prev) ==
    [prev EXCEPT !.queue = <<>>,
                 !.currentQueueIndex = 0 - 1,
                 !.currentEpisode = Null,
                 !.isPlaying = FALSE,
                 !.currentTime = 0,
                 !.duration = 0]

ClearQueueUpdate(prev) ==
    [prev EXCEPT !.queue = <<>>,
                 !.currentQueueIndex = 0 - 1,
                 !.currentEpisode = Null,
                 !.isPlaying = FALSE]

\* ---- the bound media element -----------------------------------------------
\* The <audio> element behind audioRef, as far as the hook uses it:
\*   audioSrc        audio.src, as the audioUrl it was set to (0 is '')
\*   audio.phase     "empty", "loading" (load() called, nothing known yet),
\*                   "metadata" (readyState 1), "canplay" (readyState 4),
\*                   "failed" (the load ended with an error event)
\*   audio.paused, audio.currentTime, audio.volume, audio.playbackRate
\*   plays.pending   play() promises not settled yet
\*   plays.rejected  rejected play() promises whose catch handler has not run
\*   tasks           events the element has queued and not fired yet
\*   metaListeners, errorListeners   the one-shot listeners of the binds
ReadyState == IF audio.phase = "metadata" THEN 1
              ELSE IF audio.phase = "canplay" THEN 4 ELSE 0

\* episodeProgress[episode.id] || 0
SavedTime(progress, id) == progress[id]

\* the closure handleLoadedMetadata of one bind
Listener(episode, progress) ==
    [id |-> episode.id, savedTime |-> SavedTime(progress, episode.id)]

\* the closure handleError of one bind; it reads nothing of the bind
ErrorListener(episode) ==
    [id |-> episode.id]

\* addEventListener(type, listener, { once: true }): the listener joins the
\* end of the element's list for that event.  A listener of an earlier bind
\* of the same episode with the same saved time does exactly what the new
\* one does, so the model keeps one of them, at the position of the newest.
AddListener(listeners, l) ==
    SelectSeq(listeners, LAMBDA x : x # l) \o <<l>>

\* promises that the queued tasks would reject
RECURSIVE TaskRejects(_)
TaskRejects(ts) ==
    IF ts = <<>> THEN 0 ELSE Head(ts).rejects + TaskRejects(Tail(ts))

\* HTMLMediaElement.play() on a loaded source; a is the element as the
\* code before the call left it.  allowed = FALSE is the
\* platform refusing (autoplay policy): the promise is rejected at once.
\* Otherwise a paused element starts (and queues "play"); the promise is
\* resolved when there is enough data, and pending until then.
ElementPlay(a, allowed) ==
    IF ~allowed
    THEN /\ plays' = [plays EXCEPT !.rejected = plays.rejected + 1]
         /\ audio' = a
         /\ UNCHANGED tasks
    ELSE /\ audio' = [a EXCEPT !.paused = FALSE]
         /\ tasks' = IF a.paused
                     THEN Append(tasks, [type |-> "play", rejects |-> 0])
                     ELSE tasks
         /\ plays' = IF ReadyState >= 3
                     THEN plays
                     ELSE [plays EXCEPT !.pending = plays.pending + 1]

\* HTMLMediaElement.pause(): a playing element is paused at once; the
\* "pause" event and the rejection of the pending play() promises are queued.
ElementPause(a) ==
    IF a.paused
    THEN /\ audio' = a
         /\ UNCHANGED <<plays, tasks>>
    ELSE /\ audio' = [a EXCEPT !.paused = TRUE]
         /\ tasks' = Append(tasks, [type |-> "pause", rejects |-> plays.pending])
         /\ plays' = [plays EXCEPT !.pending = 0]

\* ---- operations ---------------------------------------------------------
\* No render is pending and no promise reaction (microtask) is waiting: the
\* next event can be handled.  Every operation runs in an event tick of its
\* own; the render that follows is the action Render.
Idle == pendingRender = "none" /\ plays.rejected = 0

\* user operations wait while the element has MaxTasks events queued
Calm == Idle /\ Len(tasks) < MaxTasks

elementVars == <<audioSrc, audio, metaListeners, errorListeners, plays, tasks>>

progressVars == <<episodeProgress, storage, timers, debounce>>

\* userStopped is history, nothing in the program reads it: a user
\* operation (togglePlayPause, clearQueue, removeFromQueue) has set isPlaying
\* to false while a bind was waiting for its metadata, and neither a play
\* operation nor the element's answer (loadedmetadata, error) came since.
UserStoppedAfter(op, kind) ==
    IF kind = "episode" \/ op \in {"loadedmetadata", "error"} THEN FALSE
    ELSE IF op \in {"togglePlayPause", "clearQueue", "removeFromQueue"}
    THEN /\ ~state'.isPlaying
         /\ audio.phase = "loading"
         /\ (state.isPlaying \/ userStopped)
    ELSE userStopped

\* A handler returns after queueing its updaters.  kind says what React
\* has to render: "state" for a state update, "episode" when the update
\* stores a new currentEpisode object.
Commit(op, arg, kind) ==
    /\ pendingRender' = kind
    /\ last' = [op |-> op, arg |-> arg, pre |-> state]
    /\ userStopped' = UserStoppedAfter(op, kind)
    /\ UNCHANGED <<rendered, endedClosure, appError>>

\* the bind sequence of playEpisode: audio.src = '', load(), audio.src =
\* episode.audioUrl, two one-shot listeners, load().  load() resets the
\* element (its position, its paused flag, its playbackRate), drops its
\* queued events and rejects the pending play() promises.
Bind(episode, progress) ==
    /\ audioSrc' = episode.audioUrl
    /\ audio' = [audio EXCEPT !.phase = "loading",
                              !.paused = TRUE,
                              !.currentTime = 0,
                              !.playbackRate = DefaultPlaybackRate]
    /\ plays' = [pending |-> 0,
                 rejected |-> plays.rejected + plays.pending + TaskRejects(tasks)]
    /\ tasks' = <<>>
    /\ metaListeners' = AddListener(metaListeners, Listener(episode, progress))
    /\ errorListeners' = AddListener(errorListeners, ErrorListener(episode))

NoBind == UNCHANGED elementVars

\* the queue never outgrows MaxQueue in the model
Fits(episode) ==
    \/ Len(state.queue) < MaxQueue
    \/ FindIndex(state.queue, episode.id) # 0 - 1

playEpisode(episode) ==
    /\ Calm
    /\ Fits(episode)
    /\ state' = PlayEpisodeUpdate(state, episode)
    /\ Bind(episode, episodeProgress)
    /\ Commit("playEpisode", episode.id, "episode")
    /\ UNCHANGED progressVars

addToQueue(episode) ==
    /\ Calm
    /\ Len(state.queue) < MaxQueue
    /\ state' = AddToQueueUpdate(state, episode)
    /\ NoBind
    /\ Commit("addToQueue", episode.id, "state")
    /\ UNCHANGED progressVars

removeFromQueue(index) ==
    /\ Calm
    /\ state' = RemoveFromQueueUpdate(state, index)
    /\ NoBind
    /\ Commit("removeFromQueue", index, "state")
    /\ UNCHANGED progressVars

\* variant of playNext that wraps around to the first entry at the end
playNextWraps ==
    /\ Calm
    /\ IF rendered.queue # <<>>
       THEN LET nextIndex == (rendered.currentQueueIndex + 1) % Len(rendered.queue)
                nextEpisode == rendered.queue[nextIndex + 1]
            IN  /\ Fits(nextEpisode)
                /\ state' = PlayEpisodeUpdate(state, nextEpisode)
                /\ Bind(nextEpisode, episodeProgress)
                /\ Commit("playNext", 0, "episode")
       ELSE /\ UNCHANGED state
            /\ NoBind
            /\ Commit("playNext", 0, "none")
    /\ UNCHANGED progressVars

\* playNext reads the rendered state and delegates to playEpisode
playNext ==
    /\ Calm
    /\ IF rendered.currentQueueIndex < Len(rendered.queue) - 1
       THEN LET nextIndex == rendered.currentQueueIndex + 1
                nextEpisode == rendered.queue[nextIndex + 1]
            IN  /\ Fits(nextEpisode)
                /\ state' = PlayEpisodeUpdate(state, nextEpisode)
                /\ Bind(nextEpisode, episodeProgress)
                /\ Commit("playNext", 0, "episode")
       ELSE /\ UNCHANGED state
            /\ NoBind
            /\ Commit("playNext", 0, "none")
    /\ UNCHANGED progressVars

playPrevious ==
    /\ Calm
    /\ IF rendered.currentQueueIndex > 0
       THEN LET prevIndex == rendered.currentQueueIndex - 1
                prevEpisode == rendered.queue[prevIndex + 1]
            IN  /\ Fits(prevEpisode)
                /\ state' = PlayEpisodeUpdate(state, prevEpisode)
                /\ Bind(prevEpisode, episodeProgress)
                /\ Commit("playPrevious", 0, "episode")
       ELSE /\ UNCHANGED state
            /\ NoBind
            /\ Commit("playPrevious", 0, "none")
    /\ UNCHANGED progressVars

togglePlayPause ==
    /\ Calm
    /\ state' = TogglePlayPauseUpdate(state)
    /\ NoBind
    /\ Commit("togglePlayPause", 0, "state")
    /\ UNCHANGED progressVars

clearQueue ==
    /\ Calm
    /\ state' = ClearQueueUpdate(state)
    /\ NoBind
    /\ Commit("clearQueue", 0, "state")
    /\ UNCHANGED progressVars

\* setVolume(volume): the state and the element take the value
setVolume(volume) ==
    /\ Calm
    /\ state' = [state EXCEPT !.volume = volume]
    /\ audio' = [audio EXCEPT !.volume = volume]
    /\ Commit("setVolume", volume, "state")
    /\ UNCHANGED <<audioSrc, metaListeners, errorListeners, plays, tasks>>
    /\ UNCHANGED progressVars

\* setPlaybackSpeed(speed): the state and the element take the value
setPlaybackSpeed(speed) ==
    /\ Calm
    /\ state' = [state EXCEPT !.playbackSpeed = speed]
    /\ audio' = [audio EXCEPT !.playbackRate = speed]
    /\ Commit("setPlaybackSpeed", speed, "state")
    /\ UNCHANGED <<audioSrc, metaListeners, errorListeners, plays, tasks>>
    /\ UNCHANGED progressVars

\* an element that takes any position it is given
ElementSeekUnclamped(time) ==
    time

\* Assigning audio.currentTime: an element that knows its media seeks
\* within 0 .. duration; one that has no metadata keeps the value as the
\* position to start from.
ElementSeek(time) ==
    IF ReadyState = 0 THEN time
    ELSE IF time < 0 THEN 0
    ELSE IF time > MaxTime THEN MaxTime
    ELSE time

\* seek(time): audioRef.current.currentTime = time; state.currentTime = time
seek(time) ==
    /\ Calm
    /\ state' = [state EXCEPT !.currentTime = time]
    /\ audio' = [audio EXCEPT !.currentTime = ElementSeek(time)]
    /\ Commit("seek", time, "state")
    /\ UNCHANGED <<audioSrc, metaListeners, errorListeners, plays, tasks>>
    /\ UNCHANGED progressVars

\* a skip that only keeps the position from going below 0
SkipTargetNoCeiling(duration, position, amount) ==
    IF position + amount < 0 THEN 0 ELSE position + amount

\* Math.max(0, Math.min(state.duration, audioRef.current.currentTime + amount))
SkipTarget(duration, position, amount) ==
    LET sum == position + amount
        capped == IF duration < sum THEN duration ELSE sum
    IN  IF capped < 0 THEN 0 ELSE capped

\* amounts offered to skipTime: short and long skips, both ways
SkipInputs == ((0 - MaxTime - 1) .. (MaxTime + 1)) \ {0}

\* skipTime(amount): with the duration of the last render known (not 0), seek
\* to the clamped target; otherwise nothing
skipTime(amount) ==
    /\ Calm
    /\ IF rendered.duration # 0
       THEN LET newTime == SkipTarget(rendered.duration, audio.currentTime, amount) IN
            /\ state' = [state EXCEPT !.currentTime = newTime]
            /\ audio' = [audio EXCEPT !.currentTime = ElementSeek(newTime)]
            /\ Commit("skipTime", amount, "state")
            /\ UNCHANGED <<audioSrc, metaListeners, errorListeners, plays, tasks>>
       ELSE /\ UNCHANGED state
            /\ NoBind
            /\ Commit("skipTime", amount, "none")
    /\ UNCHANGED progressVars

\* ---- render and effects ---------------------------------------------------
\* the effect on [state.isPlaying, state.currentEpisode], run after a render
\* in which one of the two changed
ReconcileEffect(a, allowed) ==
    IF state.isPlaying /\ state.currentEpisode # Null
    THEN IF audioSrc = state.currentEpisode.audioUrl /\ ReadyState >= 2
         THEN ElementPlay(a, allowed)
         ELSE audio' = a /\ UNCHANGED <<plays, tasks>>
    ELSE IF ~state.isPlaying
         THEN ElementPause(a)
         ELSE audio' = a /\ UNCHANGED <<plays, tasks>>

\* handleEnded is re-created only when state.currentQueueIndex or
\* state.queue.length changed; it calls the playNext (and through it the
\* playEpisode) of the render that created it.
EndedClosureAfterRender ==
    IF \/ state.currentQueueIndex # rendered.currentQueueIndex
       \/ Len(state.queue) # Len(rendered.queue)
    THEN [queue |-> state.queue,
          currentQueueIndex |-> state.currentQueueIndex,
          episodeProgress |-> episodeProgress]
    ELSE endedClosure

\* the effect on [state.playbackSpeed, state.volume]
SettingsEffect(a) ==
    IF \/ state.playbackSpeed # rendered.playbackSpeed
       \/ state.volume # rendered.volume
    THEN [a EXCEPT !.playbackRate = state.playbackSpeed, !.volume = state.volume]
    ELSE a

\* React renders the queued updates and runs the effects whose dependencies
\* changed
RenderWith(allowed) ==
    /\ pendingRender # "none"
    /\ rendered' = state
    /\ pendingRender' = "none"
    /\ endedClosure' = EndedClosureAfterRender
    /\ IF \/ state.isPlaying # rendered.isPlaying
          \/ state.currentEpisode # rendered.currentEpisode
          \/ pendingRender = "episode"
       THEN ReconcileEffect(SettingsEffect(audio), allowed)
       ELSE audio' = SettingsEffect(audio) /\ UNCHANGED <<plays, tasks>>
    /\ last' = [op |-> "render", arg |-> 0, pre |-> state]
    /\ UNCHANGED userStopped
    /\ UNCHANGED <<state, audioSrc, metaListeners, errorListeners, appError>>
    /\ UNCHANGED progressVars

\* the platform allows or refuses a play request of the effect
Render == \E allowed \in BOOLEAN : RenderWith(allowed)

InitialAudio ==
    [phase |-> "empty", paused |-> TRUE, currentTime |-> 0,
     volume |-> 100, playbackRate |-> DefaultPlaybackRate]

Init ==
    /\ state = InitialState
    /\ rendered = InitialState
    /\ pendingRender = "none"
    /\ audioSrc = 0
    /\ audio = InitialAudio
    /\ metaListeners = <<>>
    /\ errorListeners = <<>>
    /\ plays = [pending |-> 0, rejected |-> 0]
    /\ tasks = <<>>
    /\ episodeProgress = [i \in 1..NumEpisodes |-> 0]
    /\ storage = [i \in 1..NumEpisodes |-> 0]
    /\ timers = NoTimer
    /\ debounce = NoTick
    /\ endedClosure = [queue |-> <<>>,
                       currentQueueIndex |-> 0 - 1,
                       episodeProgress |-> [i \in 1..NumEpisodes |-> 0]]
    /\ appError = "null"
    /\ userStopped = FALSE
    /\ last = [op |-> "init", arg |-> 0, pre |-> InitialState]

Next ==
    \/ \E episode \in EpisodePool : playEpisode(episode)
    \/ \E episode \in EpisodePool : addToQueue(episode)
    \/ \E index \in IndexInputs : removeFromQueue(index)
    \/ playNext
    \/ playPrevious
    \/ togglePlayPause
    \/ clearQueue
    \/ Render

Spec == Init /\ [][Next]_vars

\* the element is actually playing
ElementIsPlaying == ~audio.paused /\ ReadyState >= 3

\* ---- media events ----------------------------------------------------------
\* audio.duration of a loaded source
MediaDuration == MaxTime

\* "loadedmetadata": the load started by the last bind got its metadata.
\* handleLoadedMetadata (the onLoadedMetadata prop) stores the duration;
\* every one-shot listener registered by a bind and not fired yet runs, in
\* registration order: audio.currentTime = savedTime; audio.play().
loadedmetadataWith(allowed) ==
    /\ Idle
    /\ audio.phase = "loading"
    /\ Len(tasks) < MaxTasks
    /\ LET n == Len(metaListeners) IN
         /\ audio' = [audio EXCEPT
                        !.phase = "metadata",
                        !.paused = IF n > 0 /\ allowed THEN FALSE ELSE audio.paused,
                        !.currentTime = IF n > 0 THEN metaListeners[n].savedTime
                                        ELSE audio.currentTime]
         /\ plays' = IF allowed
                     THEN [plays EXCEPT !.pending = plays.pending + n]
                     ELSE [plays EXCEPT !.rejected = plays.rejected + n]
         /\ tasks' = IF n > 0 /\ allowed /\ audio.paused
                     THEN Append(tasks, [type |-> "play", rejects |-> 0])
                     ELSE tasks
    /\ metaListeners' = <<>>
    /\ state' = [state EXCEPT !.duration = MediaDuration]
    /\ Commit("loadedmetadata", Len(metaListeners), "state")
    /\ UNCHANGED <<audioSrc, errorListeners>>
    /\ UNCHANGED progressVars

\* the platform allows or refuses the play requests of the listeners
loadedmetadata == \E allowed \in BOOLEAN : loadedmetadataWith(allowed)

\* the element has buffered enough to play: a started element is now
\* playing and its pending play() promises are resolved (nothing in the hook
\* listens to that)
canplay ==
    /\ Idle
    /\ audio.phase = "metadata"
    /\ audio' = [audio EXCEPT !.phase = "canplay"]
    /\ plays' = IF audio.paused THEN plays ELSE [plays EXCEPT !.pending = 0]
    /\ last' = [op |-> "canplay", arg |-> 0, pre |-> state]
    /\ UNCHANGED <<state, rendered, pendingRender, endedClosure, appError>>
    /\ UNCHANGED userStopped
    /\ UNCHANGED <<audioSrc, metaListeners, errorListeners, tasks>>
    /\ UNCHANGED progressVars

\* an error handler that deselects the episode that failed
HandleErrorUpdateDeselects(prev) ==
    [prev EXCEPT !.isPlaying = FALSE,
                 !.currentEpisode = Null,
                 !.currentQueueIndex = 0 - 1]

\* handleError: setState(prev => ({ ...prev, isPlaying: false }))
HandleErrorUpdate(prev) ==
    [prev EXCEPT !.isPlaying = FALSE]

\* "error": the load started by the last bind failed.  Every one-shot error
\* listener registered by a bind and not fired yet runs (handleError).
error ==
    /\ Idle
    /\ audio.phase = "loading"
    /\ audio' = [audio EXCEPT !.phase = "failed"]
    /\ errorListeners' = <<>>
    /\ state' = IF Len(errorListeners) > 0
                THEN HandleErrorUpdate(state)
                ELSE state
    /\ Commit("error", Len(errorListeners), "state")
    /\ UNCHANGED <<audioSrc, metaListeners, plays, tasks>>
    /\ UNCHANGED progressVars

\* the element fires "play": handlePlay
handlePlay ==
    /\ Idle
    /\ tasks # <<>>
    /\ Head(tasks).type = "play"
    /\ tasks' = Tail(tasks)
    /\ state' = [state EXCEPT !.isPlaying = TRUE]
    /\ Commit("play", 0, "state")
    /\ UNCHANGED <<audioSrc, audio, metaListeners, errorListeners, plays>>
    /\ UNCHANGED progressVars

\* the element fires "pause" (handlePause) and rejects the play() promises
\* that pause() took
handlePause ==
    /\ Idle
    /\ tasks # <<>>
    /\ Head(tasks).type = "pause"
    /\ tasks' = Tail(tasks)
    /\ plays' = [plays EXCEPT !.rejected = plays.rejected + Head(tasks).rejects]
    /\ state' = [state EXCEPT !.isPlaying = FALSE]
    /\ Commit("pause", 0, "state")
    /\ UNCHANGED <<audioSrc, audio, metaListeners, errorListeners>>
    /\ UNCHANGED progressVars

\* a catch handler that only logs
PlayRejectedUpdateLogsOnly(prev) ==
    prev

\* .catch(e => { ...; setState(prev => ({ ...prev, isPlaying: false })) })
PlayRejectedUpdate(prev) ==
    [prev EXCEPT !.isPlaying = FALSE]

\* the catch handlers of the rejected play() promises run (microtasks)
playRejected ==
    /\ plays.rejected > 0
    /\ plays' = [plays EXCEPT !.rejected = 0]
    /\ state' = PlayRejectedUpdate(state)
    /\ Commit("playRejected", plays.rejected,
              IF pendingRender = "episode" THEN "episode" ELSE "state")
    /\ UNCHANGED <<audioSrc, audio, metaListeners, errorListeners, tasks>>
    /\ UNCHANGED progressVars

\* Playback reaches the end of the media: the element pauses itself and
\* fires "pause" and "ended" in one task.  handlePause and handleEnded run;
\* handleEnded tests the rendered pointer and calls the playNext of the
\* render that created it (endedClosure).
ended ==
    /\ Idle
    /\ audio.phase = "canplay"
    /\ ~audio.paused
    /\ tasks = <<>>
    /\ LET stopped == [state EXCEPT !.isPlaying = FALSE]
           c == endedClosure
       IN IF /\ rendered.currentQueueIndex < Len(rendered.queue) - 1
             /\ c.currentQueueIndex < Len(c.queue) - 1
          THEN LET nextEpisode == c.queue[c.currentQueueIndex + 2] IN
               /\ Fits(nextEpisode)
               /\ state' = PlayEpisodeUpdate(stopped, nextEpisode)
               /\ Bind(nextEpisode, c.episodeProgress)
               /\ Commit("ended", 1, "episode")
          ELSE /\ state' = stopped
               /\ audio' = [audio EXCEPT !.paused = TRUE,
                                         !.currentTime = MediaDuration]
               /\ UNCHANGED <<audioSrc, metaListeners, errorListeners, plays, tasks>>
               /\ Commit("ended", 0, "state")
    /\ UNCHANGED progressVars

\* The engine with its media element: the operations, the renders and the
\* events of the element.
NextMedia ==
    \/ \E episode \in EpisodePool : playEpisode(episode)
    \/ \E episode \in EpisodePool : addToQueue(episode)
    \/ togglePlayPause
    \/ clearQueue
    \/ Render
    \/ loadedmetadata
    \/ canplay
    \/ error
    \/ handlePlay
    \/ handlePause
    \/ playRejected
    \/ ended

SpecMedia == Init /\ [][NextMedia]_vars

\* ---- progress ----------------------------------------------------------------
\* a tick that forgets to cancel the write scheduled before
ClearTimeoutForgets(ts) ==
    ts

\* clearTimeout(debouncedUpdateTimeRef.current): the newest timeout, if it
\* has not fired, is cancelled
ClearTimeout(ts) ==
    IF ts = <<>> THEN ts ELSE SubSeq(ts, 1, Len(ts) - 1)

\* updateTimeProgress(episodeId, time) of the hook: cancel, then schedule
\* onTimeProgress(episodeId, time) in DebounceDelay
Schedule(ts, episodeId, time) ==
    Append(ClearTimeout(ts),
           [episodeId |-> episodeId, time |-> time,
            remaining |-> DebounceDelay, progress |-> episodeProgress])

\* The playing element fires "timeupdate", at the same position (in whole
\* units) or one further: handleTimeUpdate stores the position and schedules
\* the progress write for the episode of the last render (it returns at once
\* when there is none).
timeupdate ==
    /\ Idle
    /\ ElementIsPlaying
    /\ rendered.currentEpisode # Null
    /\ \E time \in {audio.currentTime, audio.currentTime + 1} :
         /\ time <= MediaDuration
         /\ audio' = [audio EXCEPT !.currentTime = time]
         /\ state' = [state EXCEPT !.currentTime = time]
         /\ timers' = Schedule(timers, rendered.currentEpisode.id, time)
         /\ debounce' = [episodeId |-> rendered.currentEpisode.id, time |-> time,
                         elapsed |-> 0, calls |-> 0,
                         run |-> IF timers # <<>> THEN 2 ELSE 1]
         /\ Commit("timeupdate", time, "state")
    /\ UNCHANGED <<audioSrc, metaListeners, errorListeners, plays, tasks>>
    /\ UNCHANGED <<episodeProgress, storage>>

\* 1000 ms pass while a timeout is waiting; a timeout that is due fires
\* first
elapse ==
    /\ Idle
    /\ timers # <<>>
    /\ \A i \in 1 .. Len(timers) : timers[i].remaining > 0
    /\ timers' = [i \in 1 .. Len(timers) |->
                    [timers[i] EXCEPT !.remaining = timers[i].remaining - 1]]
    /\ debounce' = [debounce EXCEPT !.elapsed =
                        IF debounce.elapsed < DebounceDelay
                        THEN debounce.elapsed + 1 ELSE debounce.elapsed]
    /\ last' = [op |-> "elapse", arg |-> 0, pre |-> state]
    /\ UNCHANGED <<state, rendered, pendingRender, endedClosure, appError>>
    /\ UNCHANGED userStopped
    /\ UNCHANGED elementVars
    /\ UNCHANGED <<episodeProgress, storage>>

\* App.updateTimeProgress(episodeId, time), the onTimeProgress of the hook:
\* newProgress = { ...episodeProgress, [episodeId]: time }
UpdateTimeProgress(progress, episodeId, time) ==
    [progress EXCEPT ![episodeId] = time]

\* localStorageService.saveUserData({episodeProgress}) replaces the stored
\* map with the one it is given.
saveUserData(newProgress) == newProgress

\* localStorageService.clearUserData() removes the stored map;
\* loadUserData() then answers the empty map, where every episode reads 0.
clearUserData == [i \in 1..NumEpisodes |-> 0]

loadUserData(stored) == stored

\* the oldest timeout that is due fires and calls onTimeProgress; the
\* application stores the new map, saves it and renders
timeout ==
    /\ Idle
    /\ timers # <<>>
    /\ Head(timers).remaining = 0
    /\ LET t == Head(timers) IN
         /\ episodeProgress' = UpdateTimeProgress(t.progress, t.episodeId, t.time)
         /\ storage' = saveUserData(episodeProgress')
         /\ debounce' = [debounce EXCEPT !.calls = debounce.calls + 1]
         /\ Commit("timeout", t.episodeId, "state")
    /\ timers' = Tail(timers)
    /\ UNCHANGED state
    /\ UNCHANGED elementVars

\* two episodes are played in turn: the first and the last of the pool
ProgressPool == {Episode(1), Episode(NumEpisodes)}

\* The engine while it plays: ticks, the debounce timeout and progress
\* writes, on a platform that allows playback.
NextProgress ==
    \/ \E episode \in ProgressPool : playEpisode(episode)
    \/ RenderWith(TRUE)
    \/ loadedmetadataWith(TRUE)
    \/ canplay
    \/ handlePlay
    \/ playRejected
    \/ timeupdate
    \/ elapse
    \/ timeout

SpecProgress == Init /\ [][NextProgress]_vars

\* App.handleSignOut: the stored user data is removed and currentUser becomes
\* a new object, so the user-data effect of the following render loads the
\* progress map again, from the emptied storage. The player is not touched
\* and a waiting timeout is not cleared.
signOut ==
    /\ Idle
    /\ storage' = clearUserData
    /\ episodeProgress' = loadUserData(storage')
    /\ Commit("signOut", 0, "state")
    /\ UNCHANGED <<state, timers, debounce>>
    /\ UNCHANGED elementVars

\* progress writes while the user can sign out
NextSignOut ==
    \/ NextProgress
    \/ signOut

SpecSignOut == Init /\ [][NextSignOut]_vars

\* the same with the end of the media, which auto-advances
NextResume ==
    \/ NextProgress
    \/ ended

SpecResume == Init /\ [][NextResume]_vars

\* The engine with its controls: the settings and the position change
\* between the queue operations.
NextControls ==
    \/ \E episode \in EpisodePool : playEpisode(episode)
    \/ clearQueue
    \/ \E volume \in Volumes : setVolume(volume)
    \/ \E speed \in Speeds : setPlaybackSpeed(speed)
    \/ \E time \in SeekInputs : seek(time)
    \/ \E amount \in SkipInputs : skipTime(amount)
    \/ Render
    \/ loadedmetadata
    \/ handlePlay
    \/ playRejected

SpecControls == Init /\ [][NextControls]_vars

\* ---- sanity of the model ------------------------------------------------
TypeOK ==
    /\ state.queue \in Seq(EpisodePool)
    /\ Len(state.queue) <= MaxQueue
    /\ state.currentEpisode \in EpisodePool \cup {Null}
    /\ state.isPlaying \in BOOLEAN
    /\ state.currentQueueIndex \in (0 - 1) .. (MaxQueue - 1)
    /\ pendingRender = "none" => rendered = state
    /\ audioSrc \in 0 .. NumEpisodes

\* ---- the inline implementation of app.tsx ---------------------------------
\* Its four pieces of state (useState) over which the two implementations
\* are compared; each operation runs in its own tick, so the closure holds
\* the latest values.
LegacyState(st) ==
    [queue |-> st.queue, currentQueueIndex |-> st.currentQueueIndex,
     currentEpisode |-> st.currentEpisode, isPlaying |-> st.isPlaying]

\* the play/pause effect, as far as it sets state: playing without an
\* episode selects the first entry of the queue, or stops
LegacyPlayPauseEffect(l) ==
    IF l.isPlaying /\ l.currentEpisode = Null
    THEN IF Len(l.queue) > 0
         THEN [l EXCEPT !.currentEpisode = l.queue[1], !.currentQueueIndex = 0]
         ELSE [l EXCEPT !.isPlaying = FALSE]
    ELSE l

LegacyPlayEpisode(l, episode) ==
    LET existingQueueIndex == FindIndex(l.queue, episode.id) IN
    IF existingQueueIndex # 0 - 1
    THEN [l EXCEPT !.currentEpisode = episode, !.isPlaying = TRUE,
                   !.currentQueueIndex = existingQueueIndex]
    ELSE [l EXCEPT !.currentEpisode = episode, !.isPlaying = TRUE,
                   !.queue = Append(l.queue, episode),
                   !.currentQueueIndex = Len(l.queue)]

LegacyAddToQueue(l, episode) == [l EXCEPT !.queue = Append(l.queue, episode)]

LegacyRemoveFromQueue(l, index) ==
    LET newQueue == FilterIndex(l.queue, index) IN
    IF index < l.currentQueueIndex
    THEN [l EXCEPT !.queue = newQueue,
                   !.currentQueueIndex = l.currentQueueIndex - 1]
    ELSE IF index = l.currentQueueIndex
    THEN [l EXCEPT !.queue = newQueue, !.isPlaying = FALSE,
                   !.currentEpisode = Null, !.currentQueueIndex = 0 - 1]
    ELSE [l EXCEPT !.queue = newQueue]

\* the pointer is set to the next position itself, not looked up by id
LegacyPlayNext(l) ==
    IF l.currentQueueIndex < Len(l.queue) - 1
    THEN LET nextIndex == l.currentQueueIndex + 1 IN
         [l EXCEPT !.currentQueueIndex = nextIndex,
                   !.currentEpisode = l.queue[nextIndex + 1],
                   !.isPlaying = TRUE]
    ELSE l

LegacyPlayPrevious(l) ==
    IF l.currentQueueIndex > 0
    THEN LET prevIndex == l.currentQueueIndex - 1 IN
         [l EXCEPT !.currentQueueIndex = prevIndex,
                   !.currentEpisode = l.queue[prevIndex + 1],
                   !.isPlaying = TRUE]
    ELSE l

\* the "Clear Queue" button
LegacyClearQueue(l) ==
    [queue |-> <<>>, currentQueueIndex |-> 0 - 1, isPlaying |-> FALSE,
     currentEpisode |-> Null]

\* one operation of the inline implementation and the effect after it
LegacyStep(l, op, arg) ==
    LegacyPlayPauseEffect(
        CASE op = "playEpisode" -> LegacyPlayEpisode(l, Episode(arg))
          [] op = "addToQueue" -> LegacyAddToQueue(l, Episode(arg))
          [] op = "removeFromQueue" -> LegacyRemoveFromQueue(l, arg)
          [] op = "playNext" -> LegacyPlayNext(l)
          [] op = "playPrevious" -> LegacyPlayPrevious(l)
          [] op = "clearQueue" -> LegacyClearQueue(l)
          [] OTHER -> l)

\* the queue operations alone, each in its own tick
NextQueue ==
    \/ \E episode \in EpisodePool : playEpisode(episode)
    \/ \E episode \in EpisodePool : addToQueue(episode)
    \/ \E index \in IndexInputs : removeFromQueue(index)
    \/ playNext
    \/ playPrevious
    \/ clearQueue
    \/ Render

SpecQueue == Init /\ [][NextQueue]_vars

\* ---- several calls in one tick ---------------------------------------------
\* A handler that calls a second engine operation before React has rendered
\* (as the test does inside one act()): the updaters are queued behind the
\* earlier ones and so see the latest state, while playNext and playPrevious
\* read state.currentQueueIndex and state.queue of the last render.
InTick == pendingRender # "none" /\ Len(tasks) < MaxTasks

CommitInTick(op, arg, kind) ==
    /\ pendingRender' = IF kind = "episode" THEN kind ELSE pendingRender
    /\ last' = [op |-> op, arg |-> arg, pre |-> state]
    /\ userStopped' = UserStoppedAfter(op, kind)
    /\ UNCHANGED <<rendered, endedClosure, appError>>

playEpisodeInTick(episode) ==
    /\ InTick
    /\ Fits(episode)
    /\ state' = PlayEpisodeUpdate(state, episode)
    /\ Bind(episode, episodeProgress)
    /\ CommitInTick("playEpisode", episode.id, "episode")
    /\ UNCHANGED progressVars

addToQueueInTick(episode) ==
    /\ InTick
    /\ Len(state.queue) < MaxQueue
    /\ state' = AddToQueueUpdate(state, episode)
    /\ NoBind
    /\ CommitInTick("addToQueue", episode.id, "state")
    /\ UNCHANGED progressVars

removeFromQueueInTick(index) ==
    /\ InTick
    /\ state' = RemoveFromQueueUpdate(state, index)
    /\ NoBind
    /\ CommitInTick("removeFromQueue", index, "state")
    /\ UNCHANGED progressVars

playNextInTick ==
    /\ InTick
    /\ IF rendered.currentQueueIndex < Len(rendered.queue) - 1
       THEN LET nextIndex == rendered.currentQueueIndex + 1
                nextEpisode == rendered.queue[nextIndex + 1]
            IN  /\ Fits(nextEpisode)
                /\ state' = PlayEpisodeUpdate(state, nextEpisode)
                /\ Bind(nextEpisode, episodeProgress)
                /\ CommitInTick("playNext", 0, "episode")
       ELSE /\ UNCHANGED state
            /\ NoBind
            /\ CommitInTick("playNext", 0, "none")
    /\ UNCHANGED progressVars

playPreviousInTick ==
    /\ InTick
    /\ IF rendered.currentQueueIndex > 0
       THEN LET prevIndex == rendered.currentQueueIndex - 1
                prevEpisode == rendered.queue[prevIndex + 1]
            IN  /\ Fits(prevEpisode)
                /\ state' = PlayEpisodeUpdate(state, prevEpisode)
                /\ Bind(prevEpisode, episodeProgress)
                /\ CommitInTick("playPrevious", 0, "episode")
       ELSE /\ UNCHANGED state
            /\ NoBind
            /\ CommitInTick("playPrevious", 0, "none")
    /\ UNCHANGED progressVars

\* the queue operations, one or several in a tick
NextBatch ==
    \/ \E episode \in EpisodePool : playEpisode(episode)
    \/ \E episode \in EpisodePool : addToQueue(episode)
    \/ \E index \in IndexInputs : removeFromQueue(index)
    \/ playNext
    \/ playPrevious
    \/ \E episode \in EpisodePool : playEpisodeInTick(episode)
    \/ \E episode \in EpisodePool : addToQueueInTick(episode)
    \/ \E index \in IndexInputs : removeFromQueueInTick(index)
    \/ playNextInTick
    \/ playPreviousInTick
    \/ Render

SpecBatch == Init /\ [][NextBatch]_vars

\* ---- shorthands for the properties -----------------------------------------
\* the state in which the last operation was called
pre == last.pre

HasId(q, id) == \E i \in 1..Len(q) : q[i].id = id

ValidIndex(q, index) == index \in 0 .. (Len(q) - 1)

\* q2 is q1 without its entry at the 0-based position index
IsWithout(q2, q1, index) ==
    /\ Len(q2) = Len(q1) - 1
    /\ \A j \in 1..Len(q2) : q2[j] = IF j <= index THEN q1[j] ELSE q1[j + 1]

MediaUnchanged == UNCHANGED elementVars

\* ---- C1 --------------------------------------------------------------------
\* C1: queue-pointer invariant: whenever currentEpisode is non-null,
\* currentQueueIndex is a position of the queue and the entry there has the
\* id of currentEpisode.
C1_QueuePointerInvariant ==
    state.currentEpisode # Null =>
        /\ ValidIndex(state.queue, state.currentQueueIndex)
        /\ state.queue[state.currentQueueIndex + 1].id = state.currentEpisode.id

\* ---- C2 --------------------------------------------------------------------
\* C2: empty-queue invariant: whenever the queue is empty, currentEpisode is
\* null and currentQueueIndex is -1.
C2_EmptyQueueInvariant ==
    state.queue = <<>> =>
        /\ state.currentEpisode = Null
        /\ state.currentQueueIndex = 0 - 1

\* ---- C3 --------------------------------------------------------------------
\* C3: playEpisode(e) with an entry of id e.id already queued leaves the
\* queue as it was, points currentQueueIndex at the (first) existing entry
\* with that id, makes an episode of id e.id current and sets isPlaying.
C3_PlayExistingReuses ==
    (last.op = "playEpisode" /\ HasId(pre.queue, last.arg)) =>
        /\ state.queue = pre.queue
        /\ ValidIndex(state.queue, state.currentQueueIndex)
        /\ state.queue[state.currentQueueIndex + 1].id = last.arg
        /\ \A j \in 1..state.currentQueueIndex : state.queue[j].id # last.arg
        /\ state.currentEpisode.id = last.arg
        /\ state.isPlaying = TRUE

\* the pointer moved to an entry that was already queued, in a longer queue
C3_Witness ==
    /\ last.op = "playEpisode"
    /\ HasId(pre.queue, last.arg)
    /\ Len(pre.queue) >= 2
    /\ pre.currentEpisode # Null
    /\ pre.currentQueueIndex # state.currentQueueIndex

\* ---- C4 --------------------------------------------------------------------
\* C4: playEpisode(e) with no entry of id e.id queued appends e as the last
\* entry, keeps the earlier entries in order, sets currentQueueIndex to the
\* old queue length, currentEpisode to e and isPlaying to true.
C4_PlayNewAppends ==
    (last.op = "playEpisode" /\ ~HasId(pre.queue, last.arg)) =>
        /\ Len(state.queue) = Len(pre.queue) + 1
        /\ \A j \in 1..Len(pre.queue) : state.queue[j] = pre.queue[j]
        /\ state.queue[Len(state.queue)] = Episode(last.arg)
        /\ state.currentQueueIndex = Len(pre.queue)
        /\ state.currentEpisode = Episode(last.arg)
        /\ state.isPlaying = TRUE

\* a new episode was played while another one was current
C4_Witness ==
    /\ last.op = "playEpisode"
    /\ ~HasId(pre.queue, last.arg)
    /\ Len(pre.queue) >= 2
    /\ pre.currentEpisode # Null

\* ---- C5 --------------------------------------------------------------------
\* C5: removeFromQueue(i) with i = currentQueueIndex yields currentEpisode
\* null, isPlaying false and currentQueueIndex -1, whatever remains queued.
C5_RemoveCurrentResets ==
    (last.op = "removeFromQueue" /\ last.arg = pre.currentQueueIndex) =>
        /\ state.currentEpisode = Null
        /\ state.isPlaying = FALSE
        /\ state.currentQueueIndex = 0 - 1

\* the playing entry was removed from the middle of the queue
C5_Witness ==
    /\ last.op = "removeFromQueue"
    /\ last.arg = pre.currentQueueIndex
    /\ pre.isPlaying
    /\ pre.currentEpisode # Null
    /\ last.arg = 1
    /\ Len(state.queue) = 2

\* ---- C6 --------------------------------------------------------------------
\* C6: removeFromQueue(i) for a valid i other than currentQueueIndex removes
\* exactly entry i; the pointer is decremented by one when i is before it and
\* unchanged when i is after it, so it designates the same entry;
\* currentEpisode and isPlaying are unchanged.
C6_RemoveOtherKeepsCurrent ==
    ( /\ last.op = "removeFromQueue"
      /\ ValidIndex(pre.queue, last.arg)
      /\ last.arg # pre.currentQueueIndex ) =>
        /\ IsWithout(state.queue, pre.queue, last.arg)
        /\ last.arg < pre.currentQueueIndex =>
               state.currentQueueIndex = pre.currentQueueIndex - 1
        /\ last.arg > pre.currentQueueIndex =>
               state.currentQueueIndex = pre.currentQueueIndex
        /\ ValidIndex(pre.queue, pre.currentQueueIndex) =>
               /\ ValidIndex(state.queue, state.currentQueueIndex)
               /\ state.queue[state.currentQueueIndex + 1]
                      = pre.queue[pre.currentQueueIndex + 1]
        /\ state.currentEpisode = pre.currentEpisode
        /\ state.isPlaying = pre.isPlaying

\* an entry before the playing one was removed
C6_Witness ==
    /\ last.op = "removeFromQueue"
    /\ ValidIndex(pre.queue, last.arg)
    /\ last.arg < pre.currentQueueIndex
    /\ pre.isPlaying
    /\ pre.currentEpisode # Null
    /\ Len(state.queue) = 2

\* ---- C7 --------------------------------------------------------------------
\* C7: removeFromQueue(i) with i outside 0 .. queue.length - 1 changes
\* nothing: queue, currentQueueIndex, currentEpisode and isPlaying stay.
C7_RemoveOutOfRangeNoOp ==
    (last.op = "removeFromQueue" /\ ~ValidIndex(pre.queue, last.arg)) =>
        state = pre

\* ---- C8 --------------------------------------------------------------------
\* C8: playNext away from the last position moves the pointer to old index
\* + 1 and makes the entry that was there current; playPrevious with
\* currentQueueIndex > 0 moves to old index - 1 likewise.
C8_NextPreviousAdjacent ==
    /\ (last.op = "playNext" /\ pre.currentQueueIndex < Len(pre.queue) - 1) =>
           /\ state.currentQueueIndex = pre.currentQueueIndex + 1
           /\ state.currentEpisode = pre.queue[pre.currentQueueIndex + 2]
    /\ (last.op = "playPrevious" /\ pre.currentQueueIndex > 0) =>
           /\ state.currentQueueIndex = pre.currentQueueIndex - 1
           /\ state.currentEpisode = pre.queue[pre.currentQueueIndex]

\* ---- C9 --------------------------------------------------------------------
\* C9: playNext at the last queue position and playPrevious at position 0
\* change nothing: the state is unchanged, no bind is started (the element's
\* source and listeners stay), the pointer does not wrap around.
C9_BoundaryNoOp ==
    [][ ( \/ /\ last'.op = "playNext"
             /\ state.currentQueueIndex = Len(state.queue) - 1
          \/ /\ last'.op = "playPrevious"
             /\ state.currentQueueIndex = 0 )
        => (UNCHANGED state /\ MediaUnchanged) ]_vars

\* playNext was called while the last of several entries was current
C9_Witness ==
    /\ last.op = "playNext"
    /\ pre.currentQueueIndex = Len(pre.queue) - 1
    /\ Len(pre.queue) >= 2
    /\ pre.currentEpisode # Null
    /\ state = pre

\* ---- C10 -------------------------------------------------------------------
\* C10: addToQueue(e) appends e as the last entry, also when its id is
\* already queued, and changes no other state field nor the media element.
C10_AddToQueueAppends ==
    [][ last'.op = "addToQueue" =>
          /\ state' = [state EXCEPT
                          !.queue = Append(state.queue, Episode(last'.arg))]
          /\ MediaUnchanged ]_vars

\* an episode whose id is already queued was added while one was playing
C10_Witness ==
    /\ last.op = "addToQueue"
    /\ HasId(pre.queue, last.arg)
    /\ pre.currentEpisode # Null
    /\ pre.isPlaying
    /\ Len(state.queue) = Len(pre.queue) + 1

\* ---- C11 -------------------------------------------------------------------
\* C11: clearQueue called in any state leaves the queue empty, no current
\* episode, the pointer at -1 and isPlaying false, and keeps volume,
\* playbackSpeed, currentTime and duration as they were.
C11_ClearQueueResets ==
    last.op = "clearQueue" =>
        /\ state.queue = <<>>
        /\ state.currentEpisode = Null
        /\ state.currentQueueIndex = 0 - 1
        /\ state.isPlaying = FALSE
        /\ state.volume = pre.volume
        /\ state.playbackSpeed = pre.playbackSpeed
        /\ state.currentTime = pre.currentTime
        /\ state.duration = pre.duration

\* clearQueue was called on a playing, non-empty queue whose settings,
\* position and duration all differ from the initial ones
C11_Witness ==
    /\ last.op = "clearQueue"
    /\ Len(pre.queue) > 0
    /\ pre.isPlaying
    /\ pre.currentEpisode # Null
    /\ pre.volume # InitialState.volume
    /\ pre.playbackSpeed # InitialState.playbackSpeed
    /\ pre.currentTime # 0
    /\ pre.duration # 0

\* ---- C12 -------------------------------------------------------------------
\* C12: a togglePlayPause step negates isPlaying, changes no other state
\* field and nothing of the media element, and the same toggle applied once
\* more gives back the state it started from.
C12_ToggleOnlyFlipsIntent ==
    [][last'.op = "togglePlayPause" =>
          /\ state' = [state EXCEPT !.isPlaying = ~state.isPlaying]
          /\ UNCHANGED elementVars
          /\ TogglePlayPauseUpdate(state') = state]_vars

\* a toggle to pause was called while the element was playing: the element
\* still plays when the handler returns
C12_Witness ==
    /\ last.op = "togglePlayPause"
    /\ pre.isPlaying
    /\ ~state.isPlaying
    /\ ~audio.paused
    /\ audio.phase = "canplay"

\* ---- C13 -------------------------------------------------------------------
\* C13: when the catch handlers of rejected play requests have run,
\* isPlaying is false, no rejection is left unhandled, and queue, pointer
\* and current episode are what they were before.
C13_RejectedPlayStops ==
    last.op = "playRejected" =>
        /\ state.isPlaying = FALSE
        /\ plays.rejected = 0
        /\ state.queue = pre.queue
        /\ state.currentQueueIndex = pre.currentQueueIndex
        /\ state.currentEpisode = pre.currentEpisode

\* the platform refused the play request of a bind's metadata listener
\* while the engine reported playing
C13_Witness ==
    /\ last.op = "playRejected"
    /\ pre.isPlaying
    /\ pre.currentEpisode # Null
    /\ audio.phase = "metadata"
    /\ audio.paused

\* ---- C14 -------------------------------------------------------------------
\* C14: the step in which the element fires "error" for a bind sets
\* isPlaying to false and changes no other state field; it starts no new
\* load (the source stays, the element is failed, no listener is added);
\* and a failed element leaves that condition only through a play
\* operation of the user.
C14_BindErrorStops ==
    [][/\ last'.op = "error" =>
            /\ state' = [state EXCEPT !.isPlaying = FALSE]
            /\ audioSrc' = audioSrc
            /\ audio'.phase = "failed"
            /\ metaListeners' = metaListeners
            /\ errorListeners' = <<>>
       /\ (audio.phase = "failed" /\ audio'.phase # "failed") =>
            last'.op \in {"playEpisode", "playNext", "playPrevious"}]_vars

\* the bind of the playing current episode failed; the episode is still
\* selected, at its position, and nothing is loading
C14_Witness ==
    /\ last.op = "error"
    /\ pre.isPlaying
    /\ ~state.isPlaying
    /\ state.currentEpisode # Null
    /\ state.currentQueueIndex >= 0
    /\ Len(state.queue) > state.currentQueueIndex + 1
    /\ state.queue[state.currentQueueIndex + 1] = state.currentEpisode
    /\ audio.phase = "failed"

\* ---- C15 -------------------------------------------------------------------
\* C15: after a bind error an error message is set in application state.
C15_BindErrorSurfaced ==
    last.op = "error" => appError # "null"

\* ---- C16 -------------------------------------------------------------------
\* nothing is left to deliver: no render, no promise reaction, no unsettled
\* play request, no queued element event, no load in progress
Quiescent ==
    /\ pendingRender = "none"
    /\ plays.rejected = 0
    /\ plays.pending = 0
    /\ tasks = <<>>
    /\ audio.phase \in {"empty", "canplay", "failed"}

\* C16: once every pending render and media event is delivered, isPlaying
\* is true exactly when the element is actually playing.
C16_IntentMatchesElement ==
    Quiescent => (state.isPlaying <=> ElementIsPlaying)

\* ---- C17 -------------------------------------------------------------------
\* the listeners in ls all belong to the bind of the source now loaded
OnlyCurrentBind(ls) ==
    \A i \in 1 .. Len(ls) : ls[i].id = audioSrc

\* C17: a metadata-ready or error event runs only listeners of the latest
\* bind; no listener of a superseded bind fires.
C17_NoStaleListenerFires ==
    [][/\ last'.op = "loadedmetadata" => OnlyCurrentBind(metaListeners)
       /\ last'.op = "error" => OnlyCurrentBind(errorListeners)]_vars

\* ---- C19 -------------------------------------------------------------------
\* C19: after the media ended with the pointer before the last position,
\* the pointer is one further, the current episode is the queue entry
\* there, isPlaying is true and a load is in progress; after it ended at
\* the last position, isPlaying is false and queue, pointer and current
\* episode are unchanged.
C19_EndedAdvancesOrStops ==
    last.op = "ended" =>
        IF pre.currentQueueIndex < Len(pre.queue) - 1
        THEN /\ state.queue = pre.queue
             /\ state.currentQueueIndex = pre.currentQueueIndex + 1
             /\ state.currentEpisode = state.queue[state.currentQueueIndex + 1]
             /\ state.isPlaying = TRUE
             /\ audio.phase = "loading"
             /\ audioSrc = state.currentEpisode.audioUrl
        ELSE /\ state.isPlaying = FALSE
             /\ state.queue = pre.queue
             /\ state.currentQueueIndex = pre.currentQueueIndex
             /\ state.currentEpisode = pre.currentEpisode

\* ---- C18 -------------------------------------------------------------------
\* C18: at most one progress write is pending.  After a tick and until the
\* callback is called, exactly the write of that tick is pending, for its
\* episode and value, due DebounceDelay after that tick whatever was
\* scheduled before; the callback is called once, at that time and with
\* that value, and nothing is pending afterwards.
C18_Debounce ==
    /\ Len(timers) <= 1
    /\ debounce.calls <= 1
    /\ (debounce.run > 0 /\ debounce.calls = 0) =>
          /\ Len(timers) = 1
          /\ timers[1].episodeId = debounce.episodeId
          /\ timers[1].time = debounce.time
          /\ timers[1].remaining = DebounceDelay - debounce.elapsed
    /\ debounce.calls = 1 => timers = <<>>
    /\ last.op = "timeout" =>
          /\ debounce.calls = 1
          /\ debounce.elapsed = DebounceDelay
          /\ last.arg = debounce.episodeId
          /\ episodeProgress[debounce.episodeId] = debounce.time

\* the write of a tick that replaced the pending write of an earlier tick
\* was delivered, with a value other than the initial one
C18_Witness ==
    /\ last.op = "timeout"
    /\ debounce.run = 2
    /\ debounce.calls = 1
    /\ debounce.time > 0
    /\ episodeProgress[debounce.episodeId] = debounce.time

\* ---- C20 -------------------------------------------------------------------
\* C20: the metadata listener of every bind carries the Progress Map value
\* of its episode as the map is when the bind starts (0 when there is
\* none), and the metadata-ready event sets the element position to the
\* value of the newest bind and issues a play request.
C20_ResumeFromMapAtCall ==
    [][/\ (pendingRender = "none" /\ pendingRender' = "episode") =>
            LET l == metaListeners'[Len(metaListeners')] IN
            /\ l.id = state'.currentEpisode.id
            /\ l.savedTime = episodeProgress[l.id]
       /\ last'.op = "loadedmetadata" =>
            /\ audio'.currentTime = metaListeners[Len(metaListeners)].savedTime
            /\ plays'.pending + plays'.rejected > plays.pending + plays.rejected]_vars

\* ---- C21 -------------------------------------------------------------------
\* C21: skipTime(delta) with a known duration d > 0 sets state.currentTime
\* and the element position to max(0, min(d, t + delta)), t being the
\* element position before; the result lies in 0 .. d and no other state
\* field changes.
C21_SkipClamps ==
    [][(last'.op = "skipTime" /\ state.duration > 0) =>
          LET sum == audio.currentTime + last'.arg
              target == IF sum < 0 THEN 0
                        ELSE IF sum > state.duration THEN state.duration
                        ELSE sum
          IN  /\ state' = [state EXCEPT !.currentTime = target]
              /\ audio'.currentTime = target
              /\ 0 <= state'.currentTime
              /\ state'.currentTime <= state.duration]_vars

\* a forward skip longer than the whole media ended at the duration
C21_Witness ==
    /\ last.op = "skipTime"
    /\ pre.duration > 0
    /\ last.arg > pre.duration
    /\ state.currentTime = pre.duration
    /\ audio.currentTime = pre.duration

\* ---- C22 -------------------------------------------------------------------
\* C22: skipTime(delta) with the duration unknown (0) still seeks, to
\* max(0, t + delta).
C22_SkipWithoutDuration ==
    [][(last'.op = "skipTime" /\ state.duration = 0) =>
          LET sum == audio.currentTime + last'.arg
              target == IF sum < 0 THEN 0 ELSE sum
          IN  /\ state'.currentTime = target
              /\ audio'.currentTime = target]_vars

C24_NoDuplicateIds ==
    \A i, j \in 1 .. Len(state.queue) :
        i # j => state.queue[i].id # state.queue[j].id

\* ---- C28 -------------------------------------------------------------------
\* C28: isPlaying is true only while an episode is selected.
C28_PlayingHasEpisode ==
    state.isPlaying => state.currentEpisode # Null


\* ---- C29 -------------------------------------------------------------------
\* C29: no progress is lost on an episode change: a time-update tick
\* attributed to one episode does not cancel the pending write of another
\* episode, which stays scheduled as it was.
C29_TickKeepsOtherWrite ==
    [][last'.op = "timeupdate" =>
         \A i \in 1 .. Len(timers) :
             timers[i].episodeId # debounce'.episodeId =>
                 \E j \in 1 .. Len(timers') : timers'[j] = timers[i]]_vars

\* ---- C30 -------------------------------------------------------------------
\* C30: a debounced progress write for episode X changes only X's entry of
\* the progress map: every other entry, in memory and in storage, keeps the
\* value it had immediately before the write, also after a sign-out that
\* cleared the map while the write was pending.
C30_WriteChangesOnlyItsEntry ==
    [][last'.op = "timeout" =>
         \A i \in 1 .. NumEpisodes :
             i # last'.arg =>
                 /\ episodeProgress'[i] = episodeProgress[i]
                 /\ storage'[i] = storage[i]]_vars

\* ---- C27 -------------------------------------------------------------------
\* C27: once a user operation has set isPlaying to false while a bind is
\* waiting for its metadata, the metadata-ready event does not start
\* playback: the element stays paused and isPlaying stays false.
C27_StoppedBindStaysPaused ==
    [][userStopped /\ last'.op = "loadedmetadata" =>
         audio'.paused /\ ~state'.isPlaying]_vars

\* ---- C26 -------------------------------------------------------------------
\* the queue as id sequence, the pointer, the id of the current episode
\* (0: none) and isPlaying
Project(st) ==
    [queue |-> [i \in 1 .. Len(st.queue) |-> st.queue[i].id],
     currentQueueIndex |-> st.currentQueueIndex,
     currentEpisode |-> st.currentEpisode.id,
     isPlaying |-> st.isPlaying]

QueueOps ==
    {"playEpisode", "addToQueue", "removeFromQueue", "playNext",
     "playPrevious", "clearQueue"}

\* C26: the hook and the inline implementation are equivalent on queue and
\* pointer: from the same state, each of playEpisode, addToQueue,
\* removeFromQueue, playNext, playPrevious and clear-queue, issued in its
\* own tick, leaves both with the same queue ids, currentQueueIndex,
\* current episode id and isPlaying (so every sequence of them from the
\* initial state does).
C26_HookMatchesLegacy ==
    [][last'.op \in QueueOps =>
         Project(state') =
             Project(LegacyStep(LegacyState(state), last'.op, last'.arg))]_vars

\* ---- C25 -------------------------------------------------------------------
\* the state an operation leaves when it is applied to prev alone: what it
\* does in a tick of its own
AppliedAlone(prev, op, arg) ==
    CASE op = "playEpisode" -> PlayEpisodeUpdate(prev, Episode(arg))
      [] op = "addToQueue" -> AddToQueueUpdate(prev, Episode(arg))
      [] op = "removeFromQueue" -> RemoveFromQueueUpdate(prev, arg)
      [] op = "playNext" ->
            IF prev.currentQueueIndex < Len(prev.queue) - 1
            THEN PlayEpisodeUpdate(prev, prev.queue[prev.currentQueueIndex + 2])
            ELSE prev
      [] op = "playPrevious" ->
            IF prev.currentQueueIndex > 0
            THEN PlayEpisodeUpdate(prev, prev.queue[prev.currentQueueIndex])
            ELSE prev
      [] OTHER -> prev

\* C25: single state-update path: an operation that runs in a tick in which
\* an earlier operation has already run (before the state is rendered)
\* leaves the state that it leaves when applied to the state left by the
\* earlier one; for playNext and playPrevious as for addToQueue, playEpisode
\* and removeFromQueue.
C25_BatchEqualsSequential ==
    [][pendingRender # "none" /\ last'.op # "render" =>
         state' = AppliedAlone(state, last'.op, last'.arg)]_vars
====
